---- MODULE Spec2Model ----
(***************************************************************************)
(* Model of src/scripts/live-pnl.js: the LiveTicker class (a random walk   *)
(* re-armed by a one-shot timer) and the crash simulator (generatePaths    *)
(* and updateChart behind the volatility slider).                          *)
(*                                                                         *)
(* Numbers.  The ticker's dollar amounts are fixed-point integers in units *)
(* of 1/20 dollar (0.05, the smallest literal of calculateNextValue);      *)
(* updateDOM converts them to cents.  A value of Math.random() is a pair   *)
(* <<num, den>> standing for num/den, 0 <= num < den.  The chart's y       *)
(* values are fixed-point integers in units of 10^-6 pixel; x values are   *)
(* whole pixels.                                                           *)
(***************************************************************************)
EXTENDS Integers, Sequences, FiniteSets

VARIABLES
    page,          \* which elements the document holds: "ticker", "chart", "none"
    currentValue,  \* this.currentValue, units of 1/20 dollar
    driftBias,     \* this.driftBias, units of 1/20 dollar
    containers,    \* this.containers: the value and pnl elements
    timers,        \* the pending setTimeout delays of the ticker, in ms
    sliderValue,   \* slider.value
    chart,         \* what updateChart last wrote to the SVG elements
    rnd,           \* the value of Math.random() handed to getNextInterval
    interval       \* what getNextInterval returned for rnd (0: not called yet)

vars == <<page, currentValue, driftBias, containers, timers,
          sliderValue, chart, rnd, interval>>

tickerVars == <<currentValue, driftBias, containers, timers>>
chartVars == <<sliderValue, chart>>
intervalVars == <<rnd, interval>>

(***************************************************************************)
(* Bounds of the model.                                                    *)
(***************************************************************************)
\* The walk is followed while |currentValue - startValue| <= MaxDiff (units of
\* 1/20 dollar): draws that would carry it further are not taken.
MaxDiff == 11200

\* The same bound in the specification of the timer loop, whose claims do not
\* depend on how far the walk has gone.
SchedMaxDiff == 200

\* getNextInterval is applied to the random values k / RandRes, k < RandRes.
RandRes == 3202

\* The values of Math.random() a tick draws from.
TickDraws == {<<45, 100>>, <<95, 100>>}

IntervalDraws == {<<k, RandRes>> : k \in 0..(RandRes - 1)}

(***************************************************************************)
(* Arithmetic helpers.                                                     *)
(***************************************************************************)
Abs(n) == IF n < 0 THEN -n ELSE n

Sign(n) == IF n < 0 THEN -1 ELSE IF n > 0 THEN 1 ELSE 0

\* <<quotient, remainder>> of a * 10^k by b (a >= 0, b > 0), digit by digit so
\* that no intermediate product leaves 32 bits.
RECURSIVE ScaledDiv(_, _, _)
ScaledDiv(a, b, k) ==
    IF k = 0 THEN <<a \div b, a % b>>
    ELSE LET p == ScaledDiv(a, b, k - 1)
         IN  <<p[1] * 10 + ((p[2] * 10) \div b), (p[2] * 10) % b>>

\* (a / b).toFixed(k) as an integer count of 10^-k: a * 10^k / b rounded to the
\* nearest, halves away from zero (b > 0).
ToFixed(a, b, k) ==
    LET p == ScaledDiv(Abs(a), b, k)
    IN  Sign(a) * (p[1] + (IF 2 * p[2] >= b THEN 1 ELSE 0))

\* a / b cut toward zero (b > 0): the fixed-point product a * (1/b).
TruncDiv(a, b) == Sign(a) * (Abs(a) \div b)

\* Dollar amounts written in cents, as units of 1/20 dollar.
FromCents(c) == c \div 5

ToCents(u) == u * 5

(***************************************************************************)
(* LiveTicker                                                              *)
(***************************************************************************)
startValue == FromCents(38875265)

volatility == FromCents(500)

baseChange == FromCents(5)

biasStep == FromCents(50)

revertBand == FromCents(50000)

openValue == 38747412

intervalMin == 800

intervalMax == 2400

getNextIntervalRounded(r) ==
    ((2 * r[1] * (intervalMax - intervalMin + 1) + r[2]) \div (2 * r[2])) + intervalMin

\* Math.floor(Math.random() * (max - min + 1) + min)
getNextInterval(r) == ((r[1] * (intervalMax - intervalMin + 1)) \div r[2]) + intervalMin

\* Math.random() > 0.5 ? 1 : -1
Direction(r) == IF 2 * r[1] > r[2] THEN 1 ELSE -1

\* Math.random() * this.volatility
Magnitude(r) == (r[1] * volatility) \div r[2]

\* if (Math.random() > 0.9) this.driftBias = Math.random() > 0.5 ? 0.5 : -0.5
Resample(bias, rTest, rSign) ==
    IF 10 * rTest[1] > 9 * rTest[2]
    THEN (IF 2 * rSign[1] > rSign[2] THEN biasStep ELSE -biasStep)
    ELSE bias

ReversionAdded(change, diff) ==
    IF Abs(diff) > revertBand THEN change - TruncDiv(diff, 10) ELSE change

\* The reversion rule: the change once the walk is outside the band.
Reversion(change, diff) ==
    IF Abs(diff) > revertBand THEN -1 * TruncDiv(diff, 10) ELSE change

\* calculateNextValue: the new <<currentValue, driftBias>>.
calculateNextValue(value, bias, rDir, rMag, rTest, rSign) ==
    LET direction == Direction(rDir)
        newBias == Resample(bias, rTest, rSign)
        change == Reversion(Magnitude(rMag) + baseChange + newBias,
                            value - startValue)
    IN  <<value + change * direction, newBias>>

NoElement == [present |-> FALSE]

\* updateDOM: the containers after writing value to them.
updateDOM(cont, value) ==
    IF ~cont.value.present THEN cont
    ELSE LET diff == ToCents(value) - openValue
             pct == ToFixed(diff, openValue, 4)
             sign == IF diff >= 0 THEN "+" ELSE ""
             newValue == [present |-> TRUE, textContent |-> ToCents(value),
                          flash |-> TRUE]
             newPnl == IF cont.pnl.present
                       THEN [present |-> TRUE,
                             textContent |-> <<sign, pct, Abs(diff)>>,
                             className |-> IF diff >= 0 THEN "text-green"
                                           ELSE "text-red"]
                       ELSE cont.pnl
         IN  [value |-> newValue, pnl |-> newPnl]

\* scheduleNextTick: setTimeout(callback, this.getNextInterval())
scheduleNextTick(pending, r) == Append(pending, getNextInterval(r))

FireRepeating(pending, i) == pending

\* A one-shot timer that fires leaves the pending timers.
Fire(pending, i) == [j \in 1..(Len(pending) - 1) |->
                        IF j < i THEN pending[j] ELSE pending[j + 1]]

\* The documents a LiveTicker can be constructed in: with both elements, without
\* the pnl element, without the value element.
TickerDocuments ==
    {[value |-> [present |-> TRUE, textContent |-> 0, flash |-> FALSE],
      pnl |-> [present |-> TRUE, textContent |-> <<"", 0, 0>>, className |-> ""]],
     [value |-> [present |-> TRUE, textContent |-> 0, flash |-> FALSE],
      pnl |-> NoElement],
     [value |-> NoElement, pnl |-> NoElement]}

\* The documents in which the page's DOMContentLoaded handler constructs one:
\* if (document.getElementById('live-value-display')).
PageDocuments == {doc \in TickerDocuments : doc.value.present}

\* new LiveTicker(config) in one of docs: the fields, then init().
InitTicker(docs) ==
    /\ currentValue = startValue
    /\ driftBias = 0
    /\ \E doc \in docs : containers = updateDOM(doc, startValue)
    /\ \E r \in TickDraws : timers = scheduleNextTick(<< >>, r)

NoTicker ==
    /\ currentValue = 0
    /\ driftBias = 0
    /\ containers = [value |-> NoElement, pnl |-> NoElement]
    /\ timers = << >>

\* The timer callback of scheduleNextTick: calculateNextValue, updateDOM, then
\* scheduleNextTick again.  The walk is followed within cap of startValue.
TimerCallback(cap) ==
    /\ page = "ticker"
    /\ \E i \in DOMAIN timers, rDir, rMag, rTest, rSign, rInt \in TickDraws :
          LET next == calculateNextValue(currentValue, driftBias,
                                         rDir, rMag, rTest, rSign)
          IN  /\ Abs(next[1] - startValue) <= cap
              /\ currentValue' = next[1]
              /\ driftBias' = next[2]
              /\ containers' = updateDOM(containers, next[1])
              /\ timers' = scheduleNextTick(Fire(timers, i), rInt)
    /\ UNCHANGED <<page, chartVars, intervalVars>>

Tick == TimerCallback(MaxDiff)

\* The callback with an updateDOM that throws on the missing value element
\* instead of returning: scheduleNextTick is not reached.
TimerCallbackThrowing(cap) ==
    /\ page = "ticker"
    /\ \E i \in DOMAIN timers, rDir, rMag, rTest, rSign, rInt \in TickDraws :
          LET next == calculateNextValue(currentValue, driftBias,
                                         rDir, rMag, rTest, rSign)
          IN  /\ Abs(next[1] - startValue) <= cap
              /\ currentValue' = next[1]
              /\ driftBias' = next[2]
              /\ containers' = updateDOM(containers, next[1])
              /\ timers' = IF containers.value.present
                           THEN scheduleNextTick(Fire(timers, i), rInt)
                           ELSE Fire(timers, i)
    /\ UNCHANGED <<page, chartVars, intervalVars>>

SchedTickThrowing == TimerCallbackThrowing(SchedMaxDiff)

SchedTick == TimerCallback(SchedMaxDiff)

(***************************************************************************)
(* Crash simulator                                                         *)
(***************************************************************************)
WIDTH == 800

HEIGHT == 350

START_Y == 150

STOP_LOSS_DELTA == 30

STOP_LOSS_Y_Flipped == START_Y - STOP_LOSS_DELTA

STOP_LOSS_Y == START_Y + STOP_LOSS_DELTA

steps == 20

stepSize == WIDTH \div steps

maxDrop == 200

\* Whole pixels as units of 10^-6 pixel.
Px(n) == n * 1000000

\* Math.sin(x / 50) * 10 at x = 40, 80, ..., 800, in units of 10^-6 pixel.
NoiseTable ==
    <<7173561, 9995736, 6754632, -583741, -7568025, -9961646, -6312666,
      1165492, 7936679, 9893582, 5849172, -1743268, -8278265, -9791777,
      -5365729, 2315098, 8591618, 9656578, 4863987, -2879033>>

noise(x) == NoiseTable[x \div stepSize]

\* (Math.pow(x / WIDTH, 2) * 200) * factor, factor = volatility / 100.  x / WIDTH
\* is taken in thousandths, so its square is in units of 10^-6.
crashDrop(x, v) ==
    LET progress == (x * 1000) \div WIDTH
    IN  ((progress * progress * maxDrop) \div 100) * v

Min(a, b) == IF a < b THEN a ELSE b

Max(a, b) == IF a > b THEN a ELSE b

\* n.toFixed(1) of a y value, in tenths of a pixel.
ToFixed1(y) == Sign(y) * ((Abs(y) + 50000) \div 100000)

PathStepLateStop(acc, i, v) ==
    LET x == i * stepSize
        y == Min(Max(Px(START_Y) + noise(x) + crashDrop(x, v), 0), Px(350))
        unp == [acc EXCEPT !.unpPoints = Append(@, <<x, y>>),
                           !.unpPath = Append(@, <<"L", x * 10, ToFixed1(y)>>)]
    IN  IF y >= Px(STOP_LOSS_Y) \/ acc.isStoppedOut
        THEN [unp EXCEPT !.isStoppedOut = TRUE,
                         !.stopOutX = x,
                         !.protPoints = Append(@, <<x, Px(STOP_LOSS_Y)>>),
                         !.protPath = Append(@, <<"L", x * 10, STOP_LOSS_Y * 10>>)]
        ELSE [unp EXCEPT !.protPoints = Append(@, <<x, y>>),
                         !.protPath = Append(@, <<"L", x * 10, ToFixed1(y)>>)]

PathStepNoLatch(acc, i, v) ==
    LET x == i * stepSize
        y == Min(Max(Px(START_Y) + noise(x) + crashDrop(x, v), 0), Px(350))
        unp == [acc EXCEPT !.unpPoints = Append(@, <<x, y>>),
                           !.unpPath = Append(@, <<"L", x * 10, ToFixed1(y)>>)]
    IN  IF y >= Px(STOP_LOSS_Y)
        THEN [unp EXCEPT !.isStoppedOut = TRUE,
                         !.stopOutX = x,
                         !.protPoints = Append(@, <<x, Px(STOP_LOSS_Y)>>),
                         !.protPath = Append(@, <<"L", x * 10, STOP_LOSS_Y * 10>>)]
        ELSE [unp EXCEPT !.protPoints = Append(@, <<x, y>>),
                         !.protPath = Append(@, <<"L", x * 10, ToFixed1(y)>>)]

\* One pass of the loop body of generatePaths, for one i.
PathStep(acc, i, v) ==
    LET x == i * stepSize
        y == Min(Max(Px(START_Y) + noise(x) + crashDrop(x, v), 0), Px(350))
        unp == [acc EXCEPT !.unpPoints = Append(@, <<x, y>>),
                           !.unpPath = Append(@, <<"L", x * 10, ToFixed1(y)>>)]
    IN  IF ~acc.isStoppedOut
        THEN IF y >= Px(STOP_LOSS_Y)
             THEN [unp EXCEPT !.isStoppedOut = TRUE,
                              !.stopOutX = x,
                              !.protPoints = Append(@, <<x, Px(STOP_LOSS_Y)>>),
                              !.protPath = Append(@, <<"L", x * 10, STOP_LOSS_Y * 10>>)]
             ELSE [unp EXCEPT !.protPoints = Append(@, <<x, y>>),
                              !.protPath = Append(@, <<"L", x * 10, ToFixed1(y)>>)]
        ELSE [unp EXCEPT !.protPoints = Append(@, <<x, Px(STOP_LOSS_Y)>>),
                         !.protPath = Append(@, <<"L", x * 10, STOP_LOSS_Y * 10>>)]

\* for (let i = 1; i <= steps; i++): the passes from i to last.
RECURSIVE PathLoop(_, _, _, _)
PathLoop(acc, i, last, v) ==
    IF i > last THEN acc ELSE PathLoop(PathStep(acc, i, v), i + 1, last, v)

LoopOneShort == steps - 1

\* The last i of the loop: i <= steps.
LoopLast == steps

\* generatePaths(volatility).  unpPoints and protPoints are its two local
\* arrays; the paths are the strings it returns, as their commands
\* <<letter, x, y>> with x and y in tenths of a pixel.
generatePaths(v) ==
    LET start == [unpPath |-> << <<"M", 0, START_Y * 10>> >>,
                  protPath |-> << <<"M", 0, START_Y * 10>> >>,
                  unpPoints |-> << <<0, Px(START_Y)>> >>,
                  protPoints |-> << <<0, Px(START_Y)>> >>,
                  isStoppedOut |-> FALSE,
                  stopOutX |-> 0]
        done == PathLoop(start, 1, LoopLast, v)
    IN  [unpPath |-> done.unpPath,
         protPath |-> done.protPath,
         unpPoints |-> done.unpPoints,
         protPoints |-> done.protPoints,
         isStoppedOut |-> done.isStoppedOut,
         stopOutX |-> done.stopOutX,
         finalUnpY |-> done.unpPoints[Len(done.unpPoints)][2]]

\* updateChart: what the SVG elements hold after it, given what they held.
updateChart(old, v) ==
    LET data == generatePaths(v)
        closeLoop == << <<"L", WIDTH * 10, HEIGHT * 10>>, <<"L", 0, HEIGHT * 10>>,
                        <<"Z", 0, 0>> >>
    IN  [rendered |-> TRUE,
         label |-> v,
         data |-> data,
         unprotectedArea |-> data.unpPath \o closeLoop,
         protectedArea |-> data.protPath \o closeLoop,
         calloutVisible |-> data.isStoppedOut,
         calloutTransform |->
             IF data.isStoppedOut
             THEN <<Max(100, Min(data.stopOutX, 700)), STOP_LOSS_Y - 20>>
             ELSE old.calloutTransform]

SliderRange == 0..100

NoChartElements == [rendered |-> FALSE, calloutTransform |-> <<0, 0>>]

\* DOMContentLoaded with the slider in the document: the first render.
InitChart ==
    /\ sliderValue \in SliderRange
    /\ chart = updateChart(NoChartElements, sliderValue)

\* The slider's input event.
SliderInput ==
    /\ page = "chart"
    /\ \E v \in SliderRange :
          /\ sliderValue' = v
          /\ chart' = updateChart(chart, v)
    /\ UNCHANGED <<page, tickerVars, intervalVars>>

NoChart == sliderValue = 0 /\ chart = NoChartElements

(***************************************************************************)
(* getNextInterval on its own                                              *)
(***************************************************************************)
InitInterval == rnd \in IntervalDraws /\ interval = 0

CallGetNextInterval ==
    /\ page = "none"
    /\ interval = 0
    /\ interval' = getNextInterval(rnd)
    /\ UNCHANGED <<page, rnd, tickerVars, chartVars>>

NoInterval == rnd = <<0, 1>> /\ interval = 0

(***************************************************************************)
(* Specifications                                                          *)
(***************************************************************************)
\* A page with the ticker's value element and no slider: the ticker that the
\* DOMContentLoaded handler constructs.
TickerInit == page = "ticker" /\ InitTicker(PageDocuments) /\ NoChart /\ NoInterval

TickerSpec == TickerInit /\ [][Tick]_vars

\* The timer loop of a LiveTicker constructed in any document, with the
\* fairness of the browser's timers: an armed timer fires.
SchedInit == page = "ticker" /\ InitTicker(TickerDocuments) /\ NoChart /\ NoInterval

SchedSpec == SchedInit /\ [][SchedTick]_vars /\ WF_vars(SchedTick)

\* A page with the slider and no ticker element.
ChartInit == page = "chart" /\ NoTicker /\ InitChart /\ NoInterval

ChartSpec == ChartInit /\ [][SliderInput]_vars

\* getNextInterval applied to each random value.
IntervalInit == page = "none" /\ NoTicker /\ NoChart /\ InitInterval

IntervalSpec == IntervalInit /\ [][CallGetNextInterval]_vars

(***************************************************************************)
(* Properties                                                              *)
(***************************************************************************)
\* The indices of the unprotected samples at or beyond the stop-loss line, 180.
StopHits(d) == {i \in DOMAIN d.unpPoints : d.unpPoints[i][2] >= Px(180)}

FirstOf(S) == CHOOSE i \in S : \A j \in S : i <= j

\* C1: generatePaths reports isStoppedOut exactly when some unprotected sample
\* has y >= 180, and stopOutX is the x of the first such sample, 0 when none.
C1_StopFlagAndIndex ==
    chart.rendered =>
        LET d == chart.data
            hits == StopHits(d)
        IN  /\ d.isStoppedOut <=> hits # {}
            /\ d.stopOutX = IF hits = {} THEN 0
                            ELSE d.unpPoints[FirstOf(hits)][1]

\* A chart stopped out at x = 400 although later samples reach the line too.
C1_Witness ==
    /\ chart.rendered
    /\ chart.data.isStoppedOut
    /\ chart.data.stopOutX = 400
    /\ Cardinality(StopHits(chart.data)) > 1

\* C2: the protected y is the unprotected y before the first sample at or
\* beyond 180, and exactly 180 from that sample onward, also where the
\* unprotected y has fallen back below 180.
C2_StopOutLatches ==
    chart.rendered =>
        LET d == chart.data
        IN  \A i \in DOMAIN d.unpPoints :
                d.protPoints[i][2] =
                    IF \E j \in StopHits(d) : j <= i
                    THEN Px(180)
                    ELSE d.unpPoints[i][2]

\* A chart whose unprotected line falls back below 180 after the stop-out.
C2_Witness ==
    /\ chart.rendered
    /\ chart.data.isStoppedOut
    /\ \E i \in DOMAIN chart.data.unpPoints :
          /\ i > FirstOf(StopHits(chart.data))
          /\ chart.data.unpPoints[i][2] < Px(180)
          /\ chart.data.protPoints[i][2] = Px(180)

\* C3: both trajectories have 21 samples over the same x values, which
\* increase strictly from 0 to 800.
C3_SampleCountAndXs ==
    chart.rendered =>
        LET d == chart.data
        IN  /\ Len(d.unpPoints) = 21
            /\ Len(d.protPoints) = 21
            /\ \A i \in 1..21 : d.protPoints[i][1] = d.unpPoints[i][1]
            /\ \A i \in 1..20 : d.unpPoints[i][1] < d.unpPoints[i + 1][1]
            /\ d.unpPoints[1][1] = 0
            /\ d.unpPoints[21][1] = 800

\* The chart at full volatility, rendered with its last sample at x = 800.
C3_Witness ==
    /\ chart.rendered
    /\ sliderValue = 100
    /\ chart.data.unpPoints[Len(chart.data.unpPoints)][1] = 800

\* C4: at volatility 0 nothing stops out, stopOutX is 0 and the protected
\* trajectory is the unprotected one, point for point.
C4_ZeroVolatility ==
    (chart.rendered /\ sliderValue = 0) =>
        /\ ~chart.data.isStoppedOut
        /\ chart.data.stopOutX = 0
        /\ chart.data.protPoints = chart.data.unpPoints
        /\ chart.data.protPath = chart.data.unpPath

\* The chart rendered at volatility 0, its noise alone moving the line.
C4_Witness ==
    /\ chart.rendered
    /\ sliderValue = 0
    /\ chart.data.unpPoints[2][2] > Px(150)

\* C5: a tick that starts more than 500 from startValue moves currentValue
\* toward startValue, whatever is drawn.
C5_TickRevertsTowardStart ==
    [][Abs(currentValue - startValue) > FromCents(50000) =>
          /\ Sign(currentValue' - currentValue) = -Sign(currentValue - startValue)
          /\ Abs(currentValue' - startValue) < Abs(currentValue - startValue)]_vars

\* C6: currentValue stays within 0.05% of startValue.
C6_ValueInBand ==
    page = "ticker" => 2000 * Abs(currentValue - startValue) <= startValue

\* C7: exactly one tick timer is pending, after construction and after
\* every tick.
C7_OneTimerPending == page = "ticker" => Len(timers) = 1

\* A tick has run and its callback has armed the next timer.
C7_Witness ==
    /\ page = "ticker"
    /\ currentValue # startValue
    /\ Len(timers) = 1

\* C8: a timer is pending in every state and ticks keep occurring.
C8_TickLoopNeverStops == [](timers # << >>) /\ []<><<SchedTick>>_vars

\* A ticker without its value element that has ticked and is armed again.
C8_Witness ==
    /\ ~containers.value.present
    /\ currentValue # startValue
    /\ timers # << >>

C10_ReversionOverrides ==
    [][LET diff == currentValue - startValue
           delta == currentValue' - currentValue
       IN  IF Abs(diff) > FromCents(50000)
           THEN /\ 10 * Abs(delta) <= Abs(diff)
                /\ Abs(diff) < 10 * (Abs(delta) + 1)
           ELSE \E rDir \in TickDraws, rMag \in TickDraws :
                    delta = (Magnitude(rMag) + FromCents(5) + driftBias')
                                * Direction(rDir)]_vars

\* A value further out than any tick from inside the band can put it: a tick
\* that started outside the band has acted.
C10_Witness == Abs(currentValue - startValue) > FromCents(50000) + 200

====
